---- MODULE Spec2Model ----
(***************************************************************************)
(* Model of src/browser_automation.py: the pagination crawl                *)
(* (scrape_with_pagination), the polling wait (custom_wait_condition) and  *)
(* the retry wrapper (run_with_retry with should_retry_on_error).          *)
(* Each function is a sequential state machine with its own program        *)
(* counter; the page driver, the clock, the polled condition and the       *)
(* wrapped operation are the environment.                                  *)
(***************************************************************************)
EXTENDS Integers, Sequences, FiniteSets, TLC

VARIABLES
    \* scrape_with_pagination
    cpc,            \* position in the function
    max_pages,      \* argument
    page_num,       \* loop variable of "for page_num in range(max_pages)"
    all_items,      \* the accumulated list
    seen,           \* state of the next button found on each page, in order
    clicks,         \* number of next_button.click() calls made
    scraped,        \* number of pages whose items were read
    driver_calls,   \* number of calls made on the page object
    failed_at,      \* <<page, step>> of the driver call that raised, or <<>>
    c_outcome,      \* "running", "returned" or "raised"
    c_returned,     \* the list handed to the caller when c_outcome = "returned"
    \* custom_wait_condition
    wpc, timeout, poll_interval, true_from, clock, start, evals, sleeps,
    last_eval, w_outcome, w_value, w_elapsed,
    \* run_with_retry
    rpc, max_attempts, plan, attempt, calls, slept, caught, r_outcome, r_error,
    \* scrape_table_data
    tpc,            \* position in the function
    raw_headers,    \* inner_text() of the thead th cells, in document order
    table_rows,     \* inner_text() of the td cells of each tbody tr, in order
    header_names, data, row_idx, t_outcome,
    \* extract_structured_data
    jpc,            \* position in the function
    scripts,        \* the ld+json script elements, in document order
    script_idx,     \* number of scripts the loop has gone through
    j_outcome,      \* "running", "returned" or "raised"
    j_result        \* 0 for {}, i for the parsed content of script i

crawlVars == <<cpc, max_pages, page_num, all_items, seen, clicks, scraped,
               driver_calls, failed_at, c_outcome, c_returned>>
waitVars == <<wpc, timeout, poll_interval, true_from, clock, start, evals,
              sleeps, last_eval, w_outcome, w_value, w_elapsed>>
retryVars == <<rpc, max_attempts, plan, attempt, calls, slept, caught,
               r_outcome, r_error>>
tableVars == <<tpc, raw_headers, table_rows, header_names, data, row_idx,
               t_outcome>>
jsonVars == <<jpc, scripts, script_idx, j_outcome, j_result>>
vars == <<crawlVars, waitVars, retryVars, tableVars, jsonVars>>

----------------------------------------------------------------------------
(* Bounds *)

MaxPages == 3
MaxItems == 2
MaxTimeout == 3
MaxPoll == 3
MaxLatency == 1
MaxAttempts == 3
MaxHeaders == 2
MaxRows == 2
MaxScripts == 3

----------------------------------------------------------------------------
(* scrape_with_pagination *)

\* What page.query_selector(next_button_selector) and the two state queries
\* can find: no element, an invisible one, a visible disabled one, or a
\* visible enabled one.
ButtonStates == {"absent", "hidden", "disabled", "enabled"}

\* The items item.inner_text() yields on page p when n elements match.
PageItems(p, n) == [i \in 1..n |-> <<p, i>>]

NextUsableNoNoneCheck(b) == b \in {"enabled", "absent"}

\* next_button and next_button.is_visible() and next_button.is_enabled()
NextUsable(b) == b = "enabled"

\* Calls made on the driver by the condition above (short-circuit "and").
NextQueryCalls(b) ==
    CASE b = "absent" -> 1
      [] b = "hidden" -> 2
      [] OTHER -> 3

CrawlIdle ==
    /\ cpc = "idle" /\ max_pages = 0 /\ page_num = 0 /\ all_items = <<>>
    /\ seen = <<>> /\ clicks = 0 /\ scraped = 0 /\ driver_calls = 0
    /\ failed_at = <<>> /\ c_outcome = "running" /\ c_returned = <<>>

CrawlInit ==
    /\ cpc = "loop"
    /\ max_pages \in (0 - 1)..MaxPages
    /\ page_num = 0
    /\ all_items = <<>>
    /\ seen = <<>>
    /\ clicks = 0
    /\ scraped = 0
    /\ driver_calls = 0
    /\ failed_at = <<>>
    /\ c_outcome = "running"
    /\ c_returned = <<>>

\* "return all_items"
CrawlReturn ==
    /\ cpc' = "done"
    /\ c_outcome' = "returned"
    /\ c_returned' = all_items

CrawlLoopOneTooMany ==
    /\ cpc = "loop"
    /\ IF page_num <= max_pages
       THEN cpc' = "wait" /\ UNCHANGED <<c_outcome, c_returned>>
       ELSE CrawlReturn
    /\ UNCHANGED <<max_pages, page_num, all_items, seen, clicks, scraped,
                   driver_calls, failed_at>>
    /\ UNCHANGED <<waitVars, retryVars, tableVars, jsonVars>>

\* for page_num in range(max_pages): enter the body, or fall out of the loop
\* and return.
CrawlLoop ==
    /\ cpc = "loop"
    /\ IF page_num < max_pages
       THEN cpc' = "wait" /\ UNCHANGED <<c_outcome, c_returned>>
       ELSE CrawlReturn
    /\ UNCHANGED <<max_pages, page_num, all_items, seen, clicks, scraped,
                   driver_calls, failed_at>>
    /\ UNCHANGED <<waitVars, retryVars, tableVars, jsonVars>>

\* page.wait_for_selector(item_selector)
CrawlWait ==
    /\ cpc = "wait"
    /\ cpc' = "scrape"
    /\ driver_calls' = driver_calls + 1
    /\ UNCHANGED <<max_pages, page_num, all_items, seen, clicks, scraped,
                   failed_at, c_outcome, c_returned>>
    /\ UNCHANGED <<waitVars, retryVars, tableVars, jsonVars>>

\* items = page.query_selector_all(...); all_items.extend([...])
CrawlScrape ==
    /\ cpc = "scrape"
    /\ \E n \in 0..MaxItems :
          /\ all_items' = all_items \o PageItems(page_num + 1, n)
          /\ driver_calls' = driver_calls + 1 + n
    /\ scraped' = scraped + 1
    /\ cpc' = "next"
    /\ UNCHANGED <<max_pages, page_num, seen, clicks, failed_at, c_outcome,
                   c_returned>>
    /\ UNCHANGED <<waitVars, retryVars, tableVars, jsonVars>>

\* next_button = page.query_selector(...); the if / else: break / return
CrawlCheckNext ==
    /\ cpc = "next"
    /\ \E b \in ButtonStates :
          /\ seen' = Append(seen, b)
          /\ driver_calls' = driver_calls + NextQueryCalls(b)
          /\ IF NextUsable(b)
             THEN cpc' = "click" /\ UNCHANGED <<c_outcome, c_returned>>
             ELSE CrawlReturn
    /\ UNCHANGED <<max_pages, page_num, all_items, clicks, scraped, failed_at>>
    /\ UNCHANGED <<waitVars, retryVars, tableVars, jsonVars>>

\* next_button.click()
CrawlClick ==
    /\ cpc = "click"
    /\ clicks' = clicks + 1
    /\ driver_calls' = driver_calls + 1
    /\ cpc' = "settle"
    /\ UNCHANGED <<max_pages, page_num, all_items, seen, scraped, failed_at,
                   c_outcome, c_returned>>
    /\ UNCHANGED <<waitVars, retryVars, tableVars, jsonVars>>

\* page.wait_for_load_state("networkidle"), then the next loop iteration
CrawlSettle ==
    /\ cpc = "settle"
    /\ driver_calls' = driver_calls + 1
    /\ page_num' = page_num + 1
    /\ cpc' = "loop"
    /\ UNCHANGED <<max_pages, all_items, seen, clicks, scraped, failed_at,
                   c_outcome, c_returned>>
    /\ UNCHANGED <<waitVars, retryVars, tableVars, jsonVars>>

\* Any call on the page object may raise (timeout, detached element, closed
\* page).  The function has no try/except, so the exception leaves it and the
\* caller receives no list.
CrawlDriverRaises ==
    /\ cpc \in {"wait", "scrape", "next", "click", "settle"}
    /\ failed_at' = <<page_num + 1, cpc>>
    /\ driver_calls' = driver_calls + 1
    /\ cpc' = "done"
    /\ c_outcome' = "raised"
    /\ UNCHANGED <<max_pages, page_num, all_items, seen, clicks, scraped,
                   c_returned>>
    /\ UNCHANGED <<waitVars, retryVars, tableVars, jsonVars>>

CrawlNext ==
    \/ CrawlLoop
    \/ CrawlWait
    \/ CrawlScrape
    \/ CrawlCheckNext
    \/ CrawlClick
    \/ CrawlSettle
    \/ CrawlDriverRaises

----------------------------------------------------------------------------
(* custom_wait_condition *)

\* true_from value of a condition that never becomes true.
Never == 0 - 1

\* condition_fn(page) sampled at time t: false before true_from, true from
\* then on.
PredTrue(t) == true_from # Never /\ t >= true_from

\* while (time.time() * 1000) - start < timeout
DeadlineOpen(now, st, to) == now - st < to

WaitIdle ==
    /\ wpc = "idle" /\ timeout = 0 /\ poll_interval = 0 /\ true_from = Never
    /\ clock = 0 /\ start = 0 /\ evals = 0 /\ sleeps = 0 /\ last_eval = FALSE
    /\ w_outcome = "running" /\ w_value = "" /\ w_elapsed = 0

WaitInit ==
    /\ wpc = "start"
    /\ timeout \in (0 - 1)..MaxTimeout
    /\ poll_interval \in 1..MaxPoll
    /\ true_from \in {Never} \cup 0..MaxTimeout
    /\ clock = 0
    /\ start = 0
    /\ evals = 0
    /\ sleeps = 0
    /\ last_eval = FALSE
    /\ w_outcome = "running"
    /\ w_value = ""
    /\ w_elapsed = 0

\* start = time.time() * 1000
WaitStart ==
    /\ wpc = "start"
    /\ start' = clock
    /\ wpc' = "check"
    /\ UNCHANGED <<timeout, poll_interval, true_from, clock, evals, sleeps,
                   last_eval, w_outcome, w_value, w_elapsed>>
    /\ UNCHANGED <<crawlVars, retryVars, tableVars, jsonVars>>

WaitCheckReturnsFalse ==
    /\ wpc = "check"
    /\ IF DeadlineOpen(clock, start, timeout)
       THEN /\ wpc' = "eval"
            /\ UNCHANGED <<w_outcome, w_value, w_elapsed>>
       ELSE /\ wpc' = "done"
            /\ w_outcome' = "returned"
            /\ w_value' = "False"
            /\ w_elapsed' = clock - start
    /\ UNCHANGED <<timeout, poll_interval, true_from, clock, start, evals,
                   sleeps, last_eval>>
    /\ UNCHANGED <<crawlVars, retryVars, tableVars, jsonVars>>

\* The loop condition; when it is false the loop is left and
\* "raise TimeoutError(...)" runs.
WaitCheck ==
    /\ wpc = "check"
    /\ IF DeadlineOpen(clock, start, timeout)
       THEN /\ wpc' = "eval"
            /\ UNCHANGED <<w_outcome, w_value, w_elapsed>>
       ELSE /\ wpc' = "done"
            /\ w_outcome' = "raised"
            /\ w_value' = "TimeoutError"
            /\ w_elapsed' = clock - start
    /\ UNCHANGED <<timeout, poll_interval, true_from, clock, start, evals,
                   sleeps, last_eval>>
    /\ UNCHANGED <<crawlVars, retryVars, tableVars, jsonVars>>

\* if condition_fn(page): return True.  The evaluation samples the condition
\* when it is called and takes d ms to answer.
WaitEval ==
    /\ wpc = "eval"
    /\ evals' = evals + 1
    /\ last_eval' = PredTrue(clock)
    /\ \E d \in 0..MaxLatency : clock' = clock + d
    /\ IF PredTrue(clock)
       THEN /\ wpc' = "done"
            /\ w_outcome' = "returned"
            /\ w_value' = "True"
            /\ w_elapsed' = clock' - start
       ELSE /\ wpc' = "sleep"
            /\ UNCHANGED <<w_outcome, w_value, w_elapsed>>
    /\ UNCHANGED <<timeout, poll_interval, true_from, start, sleeps>>
    /\ UNCHANGED <<crawlVars, retryVars, tableVars, jsonVars>>

\* time.sleep(poll_interval / 1000): at least poll_interval ms pass.
WaitSleep ==
    /\ wpc = "sleep"
    /\ sleeps' = sleeps + 1
    /\ \E d \in 0..MaxLatency : clock' = clock + poll_interval + d
    /\ wpc' = "check"
    /\ UNCHANGED <<timeout, poll_interval, true_from, start, evals, last_eval,
                   w_outcome, w_value, w_elapsed>>
    /\ UNCHANGED <<crawlVars, retryVars, tableVars, jsonVars>>

WaitNext ==
    \/ WaitStart
    \/ WaitCheck
    \/ WaitEval
    \/ WaitSleep

----------------------------------------------------------------------------
(* run_with_retry *)

\* What one invocation of func does: return its value, or raise an error
\* whose message carries a transient marker ("timeout"), a permanent marker
\* ("404") or neither ("boom").
CallResults == {"ok", "timeout", "404", "boom"}

NoError == [msg |-> "", call |-> 0]

\* The keywords named in should_retry_on_error's hint.
Classify(msg) ==
    CASE msg = "timeout" -> "Transient"
      [] msg = "404" -> "Permanent"
      [] OTHER -> "Unknown"

should_retry_always(error_message, att, max_att) == TRUE

\* The body of should_retry_on_error is "pass": it returns None, which the
\* caller's "if" takes as false, whatever the arguments.
should_retry_on_error(error_message, att, max_att) == FALSE

\* time.sleep(2 ** attempt): the delay in seconds.
Backoff(att) == 2 ^ att

RetryIdle ==
    /\ rpc = "idle" /\ max_attempts = 0 /\ plan = <<>> /\ attempt = 1
    /\ calls = 0 /\ slept = <<>> /\ caught = NoError
    /\ r_outcome = "running" /\ r_error = NoError

RetryInit ==
    /\ rpc = "loop"
    /\ max_attempts \in 0..MaxAttempts
    /\ plan \in [1..MaxAttempts -> CallResults]
    /\ attempt = 1
    /\ calls = 0
    /\ slept = <<>>
    /\ caught = NoError
    /\ r_outcome = "running"
    /\ r_error = NoError

\* for attempt in range(1, max_attempts + 1): enter the body, or fall off
\* the end of the function, which returns None.
RetryLoop ==
    /\ rpc = "loop"
    /\ IF attempt <= max_attempts
       THEN rpc' = "call" /\ UNCHANGED r_outcome
       ELSE rpc' = "done" /\ r_outcome' = "returned_none"
    /\ UNCHANGED <<max_attempts, plan, attempt, calls, slept, caught, r_error>>
    /\ UNCHANGED <<crawlVars, waitVars, tableVars, jsonVars>>

\* try: return func(*args, **kwargs) / except Exception as e
RetryCall ==
    /\ rpc = "call"
    /\ calls' = calls + 1
    /\ IF plan[calls'] = "ok"
       THEN /\ rpc' = "done"
            /\ r_outcome' = "returned_value"
            /\ UNCHANGED caught
       ELSE /\ rpc' = "except"
            /\ caught' = [msg |-> plan[calls'], call |-> calls']
            /\ UNCHANGED r_outcome
    /\ UNCHANGED <<max_attempts, plan, attempt, slept, r_error>>
    /\ UNCHANGED <<crawlVars, waitVars, tableVars, jsonVars>>

\* The except block: retry after the backoff sleep, or re-raise e.
RetryExcept ==
    /\ rpc = "except"
    /\ IF should_retry_on_error(caught.msg, attempt, max_attempts)
       THEN /\ slept' = Append(slept, Backoff(attempt))
            /\ attempt' = attempt + 1
            /\ rpc' = "loop"
            /\ UNCHANGED <<r_outcome, r_error>>
       ELSE /\ rpc' = "done"
            /\ r_outcome' = "raised"
            /\ r_error' = caught
            /\ UNCHANGED <<slept, attempt>>
    /\ UNCHANGED <<max_attempts, plan, calls, caught>>
    /\ UNCHANGED <<crawlVars, waitVars, tableVars, jsonVars>>

RetryNext ==
    \/ RetryLoop
    \/ RetryCall
    \/ RetryExcept

----------------------------------------------------------------------------
(* scrape_table_data *)

\* A text is a sequence of character codes; code 0 is white space.
\* The texts a header cell can hold: two of them differ only in the white
\* space around them.
RawHeaderTexts == {<<1>>, <<0, 1, 0>>, <<2>>}

\* A row may have one cell more than there are headers.
MaxCells == MaxHeaders + 1

\* The text of cell j of row r, with or without white space around it: the
\* code tells the row and the column.
CellText(r, j, padded) ==
    IF padded THEN <<0, 10 * r + j, 0>> ELSE <<10 * r + j>>

\* The rows a table can have at position r.
RowsAt(r) ==
    {[j \in 1..n |-> CellText(r, j, padded)] :
        n \in 0..MaxCells, padded \in BOOLEAN}

\* The tables of n rows.
TablesOf(n) ==
    {t \in [1..n -> UNION {RowsAt(r) : r \in 1..n}] :
        \A r \in 1..n : t[r] \in RowsAt(r)}

RECURSIVE LStrip(_)
LStrip(t) == IF Len(t) > 0 /\ Head(t) = 0 THEN LStrip(Tail(t)) ELSE t

RECURSIVE RStrip(_)
RStrip(t) ==
    IF Len(t) > 0 /\ t[Len(t)] = 0
    THEN RStrip(SubSeq(t, 1, Len(t) - 1))
    ELSE t

\* str.strip()
Strip(t) == RStrip(LStrip(t))

\* header_names = [h.inner_text().strip() for h in headers]
HeaderNames(raw) == [i \in 1..Len(raw) |-> Strip(raw[i])]

HeaderInRangeUnchecked(i, n) == TRUE

\* if i < len(header_names), i counted from 0
HeaderInRange(i, n) == i < n

\* row_data[key] = value
Put(row_data, key, value) ==
    [k \in DOMAIN row_data \cup {key} |->
        IF k = key THEN value ELSE row_data[k]]

\* The inner loop over enumerate(cells), from cell i (counted from 1) on.
RECURSIVE RowData(_, _, _, _)
RowData(names, cells, i, row_data) ==
    IF i > Len(cells)
    THEN row_data
    ELSE IF HeaderInRange(i - 1, Len(names))
         THEN RowData(names, cells, i + 1,
                      Put(row_data, names[i], Strip(cells[i])))
         ELSE RowData(names, cells, i + 1, row_data)

\* header_names[i] is evaluated for an index the list does not have.
RowRaises(names, cells) ==
    \E i \in 1..Len(cells) :
        HeaderInRange(i - 1, Len(names)) /\ i > Len(names)

TableIdle ==
    /\ tpc = "idle" /\ raw_headers = <<>> /\ table_rows = <<>>
    /\ header_names = <<>> /\ data = <<>> /\ row_idx = 0
    /\ t_outcome = "running"

TableInit ==
    /\ tpc = "headers"
    /\ raw_headers \in UNION {[1..n -> RawHeaderTexts] : n \in 0..MaxHeaders}
    /\ table_rows \in UNION {TablesOf(n) : n \in 0..MaxRows}
    /\ header_names = <<>>
    /\ data = <<>>
    /\ row_idx = 0
    /\ t_outcome = "running"

\* The header cells are read and stripped; rows is queried; data = []
TableHeaders ==
    /\ tpc = "headers"
    /\ header_names' = HeaderNames(raw_headers)
    /\ data' = <<>>
    /\ row_idx' = 0
    /\ tpc' = "rows"
    /\ UNCHANGED <<raw_headers, table_rows, t_outcome>>
    /\ UNCHANGED <<crawlVars, waitVars, retryVars, jsonVars>>

\* One iteration of "for row in rows": the record of the row is built and
\* appended.
TableRow ==
    /\ tpc = "rows"
    /\ row_idx < Len(table_rows)
    /\ row_idx' = row_idx + 1
    /\ IF RowRaises(header_names, table_rows[row_idx + 1])
       THEN /\ tpc' = "done"
            /\ t_outcome' = "IndexError"
            /\ UNCHANGED data
       ELSE /\ data' = Append(data, RowData(header_names,
                                            table_rows[row_idx + 1], 1, <<>>))
            /\ UNCHANGED <<tpc, t_outcome>>
    /\ UNCHANGED <<raw_headers, table_rows, header_names>>
    /\ UNCHANGED <<crawlVars, waitVars, retryVars, jsonVars>>

\* return data
TableReturn ==
    /\ tpc = "rows"
    /\ row_idx = Len(table_rows)
    /\ tpc' = "done"
    /\ t_outcome' = "returned"
    /\ UNCHANGED <<raw_headers, table_rows, header_names, data, row_idx>>
    /\ UNCHANGED <<crawlVars, waitVars, retryVars, jsonVars>>

TableNext ==
    \/ TableHeaders
    \/ TableRow
    \/ TableReturn

----------------------------------------------------------------------------
(* extract_structured_data *)

\* What a script element can be: its text is valid JSON, its text is not
\* valid JSON, or reading its text fails in the driver (element detached,
\* page closed).
ScriptKinds == {"valid", "malformed", "unreadable"}

\* script.inner_text() raises, with an error of the driver.
ReadRaises(script) == script = "unreadable"

\* json.loads(content) raises json.JSONDecodeError.
DecodeRaises(script) == script = "malformed"

JsonIdle ==
    /\ jpc = "idle" /\ scripts = <<>> /\ script_idx = 0
    /\ j_outcome = "running" /\ j_result = 0

JsonInit ==
    /\ jpc = "query"
    /\ scripts \in UNION {[1..n -> ScriptKinds] : n \in 0..MaxScripts}
    /\ script_idx = 0
    /\ j_outcome = "running"
    /\ j_result = 0

\* scripts = page.query_selector_all('script[type="application/ld+json"]')
JsonQuery ==
    /\ jpc = "query"
    /\ jpc' = "loop"
    /\ UNCHANGED <<scripts, script_idx, j_outcome, j_result>>
    /\ UNCHANGED <<crawlVars, waitVars, retryVars, tableVars>>

\* One iteration of "for script in scripts": the try block.  Only
\* json.JSONDecodeError is caught; any other exception leaves the function.
JsonScript ==
    /\ jpc = "loop"
    /\ script_idx < Len(scripts)
    /\ script_idx' = script_idx + 1
    /\ IF ReadRaises(scripts[script_idx + 1])
       THEN /\ jpc' = "done"
            /\ j_outcome' = "raised"
            /\ UNCHANGED j_result
       ELSE IF DecodeRaises(scripts[script_idx + 1])
            THEN UNCHANGED <<jpc, j_outcome, j_result>>
            ELSE /\ jpc' = "done"
                 /\ j_outcome' = "returned"
                 /\ j_result' = script_idx + 1
    /\ UNCHANGED scripts
    /\ UNCHANGED <<crawlVars, waitVars, retryVars, tableVars>>

\* return {}
JsonReturnEmpty ==
    /\ jpc = "loop"
    /\ script_idx = Len(scripts)
    /\ jpc' = "done"
    /\ j_outcome' = "returned"
    /\ j_result' = 0
    /\ UNCHANGED <<scripts, script_idx>>
    /\ UNCHANGED <<crawlVars, waitVars, retryVars, tableVars>>

JsonNext ==
    \/ JsonQuery
    \/ JsonScript
    \/ JsonReturnEmpty

----------------------------------------------------------------------------
(* Specifications: one per function, the other two functions not running *)

InitCrawl == CrawlInit /\ WaitIdle /\ RetryIdle /\ TableIdle /\ JsonIdle

InitWait == CrawlIdle /\ WaitInit /\ RetryIdle /\ TableIdle /\ JsonIdle

InitRetry == CrawlIdle /\ WaitIdle /\ RetryInit /\ TableIdle /\ JsonIdle

InitTable ==
    CrawlIdle /\ WaitIdle /\ RetryIdle /\ TableInit /\ JsonIdle

InitJson ==
    CrawlIdle /\ WaitIdle /\ RetryIdle /\ TableIdle /\ JsonInit

SpecCrawl == InitCrawl /\ [][CrawlNext]_vars

SpecWait == InitWait /\ [][WaitNext]_vars

\* The function runs on one thread that is never suspended for good: a step
\* that can be taken is taken.
FairSpecWait == SpecWait /\ WF_vars(WaitNext)

SpecRetry == InitRetry /\ [][RetryNext]_vars

SpecTable == InitTable /\ [][TableNext]_vars

SpecJson == InitJson /\ [][JsonNext]_vars

\* Every call on the page returns or raises: the crawl is never suspended
\* for good.
FairSpecCrawl == SpecCrawl /\ WF_vars(CrawlNext)

----------------------------------------------------------------------------
(* Properties of scrape_with_pagination *)

\* The next button was found present, visible and enabled on every page of a
\* crawl that ran to the end of its loop without a driver error.
AllPagesEnabled ==
    /\ Len(seen) = max_pages
    /\ \A i \in 1..Len(seen) : seen[i] = "enabled"

\* C1: a crawl with max_pages = N >= 1 whose next button is usable on every
\* page scrapes exactly N pages and clicks "next" exactly N-1 times: the
\* button is not clicked on the last allowed page.
C1_ClicksOneLessThanPages ==
    (cpc = "done" /\ c_outcome = "returned" /\ max_pages >= 1
        /\ AllPagesEnabled)
    => (scraped = max_pages /\ clicks = max_pages - 1)

\* C2: when a driver call fails on a page p > 1, the crawl still returns to
\* its caller, and the returned list holds every item collected on pages
\* 1..p-1.
C2_PartialResultsReturned ==
    (cpc = "done" /\ failed_at # <<>> /\ failed_at[1] > 1)
    => (c_outcome = "returned" /\ c_returned = all_items)

\* C8: when the next button is absent on page 1, the crawl stops there: one
\* page scraped, no click, and page 1's items returned, whatever max_pages.
C8_AbsentNextStopsAfterOnePage ==
    (Len(seen) >= 1 /\ seen[1] = "absent")
    => /\ cpc = "done"
       /\ c_outcome = "returned"
       /\ max_pages >= 1
       /\ scraped = 1
       /\ clicks = 0
       /\ Len(seen) = 1
       /\ c_returned = all_items
       /\ \A i \in 1..Len(c_returned) : c_returned[i] = <<1, i>>

\* A crawl allowed MaxPages pages that found no next button on page 1 and
\* returned the items of that page.
C8_Witness ==
    /\ cpc = "done"
    /\ max_pages = MaxPages
    /\ seen = <<"absent">>
    /\ c_outcome = "returned"
    /\ Len(c_returned) = MaxItems

----------------------------------------------------------------------------
(* Properties of custom_wait_condition *)

\* C3: with timeout <= 0 the condition is evaluated exactly once and no
\* sleep is made.
C3_NonPositiveTimeoutEvaluatesOnce ==
    (wpc = "done" /\ timeout <= 0) => (evals = 1 /\ sleeps = 0)

\* C4: a condition that becomes true strictly before timeout ms have passed
\* since the call started makes the call return True, at most timeout ms
\* after it started.
C4_SatisfiedWithinTimeout ==
    (wpc = "done" /\ true_from # Never /\ true_from - start < timeout)
    => (w_outcome = "returned" /\ w_value = "True" /\ w_elapsed <= timeout)

----------------------------------------------------------------------------
(* Properties of run_with_retry *)

Min(a, b) == IF a <= b THEN a ELSE b

\* The number of leading invocations of func, among the first n, that fail
\* with a transient error.
RECURSIVE LeadingTransient(_)
LeadingTransient(n) ==
    IF n = 0 THEN 0
    ELSE IF LeadingTransient(n - 1) = n - 1 /\ Classify(plan[n]) = "Transient"
         THEN n
         ELSE LeadingTransient(n - 1)

\* C6: with max_attempts = M >= 1 and an operation that always fails with a
\* transient error, the operation is invoked exactly M times and the call
\* then raises the last failure; it does not return normally.
C6_ExhaustsAllAttempts ==
    (rpc = "done" /\ max_attempts >= 1
        /\ LeadingTransient(max_attempts) = max_attempts)
    => /\ calls = max_attempts
       /\ r_outcome = "raised"
       /\ r_error.call = max_attempts

\* C7: an operation that fails k < max_attempts times with transient errors
\* and then succeeds makes the call return the operation's value after
\* exactly k+1 invocations.
C7_SucceedsAfterKFailures ==
    \A k \in 0..(max_attempts - 1) :
        (rpc = "done" /\ LeadingTransient(k) = k /\ plan[k + 1] = "ok")
        => (r_outcome = "returned_value" /\ calls = k + 1)

\* C9: an invocation that fails with a permanent error is the last one: the
\* operation is not invoked again, no backoff sleep follows it, and the call
\* raises that very error.
C9_PermanentErrorStopsImmediately ==
    \A n \in 1..calls :
        (Classify(plan[n]) = "Permanent" /\ rpc # "call")
        => /\ calls = n
           /\ Len(slept) = n - 1
           /\ rpc \in {"except", "done"}
           /\ rpc = "done" =>
                 /\ r_outcome = "raised"
                 /\ r_error = [msg |-> plan[n], call |-> n]

\* A call allowed several attempts whose first invocation failed with a
\* permanent error, which it raised.
C9_Witness ==
    /\ rpc = "done"
    /\ max_attempts = MaxAttempts
    /\ calls = 1
    /\ Classify(plan[1]) = "Permanent"
    /\ r_outcome = "raised"
    /\ r_error = [msg |-> "404", call |-> 1]

\* C10: every transient failure of an attempt k that is not the last is
\* followed by one backoff sleep, of at most base * 2^k, before attempt k+1,
\* and no sleep follows the last attempt.
C10_BackoffBeforeEachRetry ==
    (rpc = "done" /\ max_attempts >= 1
        /\ \A i \in 1..max_attempts : plan[i] \in {"ok", "timeout"})
    => LET k == Min(LeadingTransient(max_attempts), max_attempts - 1)
       IN /\ Len(slept) = k
          /\ \A i \in 1..k : slept[i] <= Backoff(i)

----------------------------------------------------------------------------
(* Properties of scrape_table_data *)

\* The number of leading positions of row r that have both a header and a
\* cell.
Zipped(r) == Min(Len(header_names), Len(table_rows[r]))

\* The last of the first m positions whose header name is key.
LastPosition(m, key) ==
    CHOOSE j \in 1..m :
        /\ header_names[j] = key
        /\ \A l \in (j + 1)..m : header_names[l] # key

\* One record per row, in row order, whose keys are the header names of the
\* zipped positions.
OneRecordPerRow ==
    /\ t_outcome = "returned"
    /\ Len(data) = Len(table_rows)
    /\ \A r \in 1..Len(table_rows) :
          DOMAIN data[r] = {header_names[i] : i \in 1..Zipped(r)}

\* C11 as stated: the call returns one record per row in row order, and the
\* record of a row maps header H[i] to cell C[i] for exactly the positions
\* i < min(|H|, |C|).
C11_RecordZipsHeadersToCells ==
    tpc = "done" =>
        /\ OneRecordPerRow
        /\ \A r \in 1..Len(table_rows) : \A i \in 1..Zipped(r) :
              data[r][header_names[i]] = Strip(table_rows[r][i])

\* C11 amended: the call returns one record per row in row order; the keys
\* of a record are the header names at the positions i < min(|H|, |C|), and
\* each name maps to the cell at the last such position that carries it
\* (to C[i] itself when the names are distinct); no row raises.
C11_RecordKeepsLastCellPerName ==
    tpc = "done" =>
        /\ OneRecordPerRow
        /\ \A r \in 1..Len(table_rows) : \A key \in DOMAIN data[r] :
              data[r][key] =
                  Strip(table_rows[r][LastPosition(Zipped(r), key)])

\* Two distinct header names, a row of one cell and a row with one cell more
\* than there are headers: the short row gives a record with the first key
\* only, the long row a record with both keys.
C11_Witness ==
    /\ tpc = "done"
    /\ t_outcome = "returned"
    /\ header_names = << <<1>>, <<2>> >>
    /\ Len(table_rows) = 2
    /\ Len(table_rows[1]) = 1
    /\ Len(table_rows[2]) = 3
    /\ DOMAIN data[1] = { <<1>> }
    /\ data[1][<<1>>] = <<11>>
    /\ DOMAIN data[2] = { <<1>>, <<2>> }

----------------------------------------------------------------------------
(* Properties of extract_structured_data *)

\* The scripts that can be read and parsed.
Parsable == {i \in 1..Len(scripts) : scripts[i] = "valid"}

\* C12: a script that cannot be read or parsed is skipped and the scan goes
\* on; the call returns the first script that parses, or {} when none does,
\* and never aborts.
C12_FirstParsableScriptReturned ==
    jpc = "done" =>
        /\ j_outcome = "returned"
        /\ IF Parsable = {}
           THEN j_result = 0
           ELSE /\ j_result \in Parsable
                /\ \A i \in Parsable : j_result <= i

----------------------------------------------------------------------------
(* Termination of scrape_with_pagination *)

\* C13: whatever max_pages is and whatever the next button does on each
\* page, the crawl terminates; while no driver call raises it has scraped at
\* most max_pages pages, it has clicked no more often than it has scraped,
\* every click was made on a page whose button was found present, visible
\* and enabled, and it ends by returning; with max_pages <= 0 it returns an
\* empty list without a call on the page.
C13_CrawlTerminatesWithinMaxPages ==
    /\ <>(cpc = "done")
    /\ [](failed_at = <<>> =>
            /\ scraped <= (IF max_pages > 0 THEN max_pages ELSE 0)
            /\ clicks <= scraped
            /\ clicks <= Len(seen)
            /\ \A i \in 1..clicks : seen[i] = "enabled"
            /\ cpc = "done" => c_outcome = "returned"
            /\ (cpc = "done" /\ max_pages <= 0) =>
                  (c_returned = <<>> /\ driver_calls = 0))

\* A crawl allowed MaxPages pages that clicked on page 1 and stopped on
\* page 2, whose button was disabled.
C13_Witness ==
    /\ cpc = "done"
    /\ c_outcome = "returned"
    /\ max_pages = MaxPages
    /\ seen = <<"enabled", "disabled">>
    /\ scraped = 2
    /\ clicks = 1

====
